---------------------------- MODULE Spec2Model ----------------------------
(***************************************************************************)
(* Model of the /data/* request handlers (app/routers/data.py) and of the  *)
(* upstream adapters they call (app/services/*.py).                        *)
(*                                                                         *)
(* Numbers are fixed-point integers in thousandths of the source's unit    *)
(* (5.0 ug/m3 is 5000, 273.15 K is 273150).  One request is handled at a   *)
(* time; every await of an upstream GET is one step whose outcome is       *)
(* chosen by the environment, and during which the clock may advance.      *)
(***************************************************************************)
EXTENDS Integers, Sequences, FiniteSets, TLC

(* ------------------------------ bounds --------------------------------- *)
\* the clock runs 0..MaxClock half-hours
MaxClock == 3
\* per-process hash secrets range over 0..MaxSalt (0 = PYTHONHASHSEED=0)
MaxSalt == 2
\* invocations of _fake_uniform recorded by the generator specification
MaxCalls == 3

(* --------------------------- program constants ------------------------- *)
\* data.py:54  abs(hash(s)) % (2**31 - 1)
SeedModulus == 2147483647
\* merra2.py:124  T2M in K -> degrees C (273.15, in thousandths)
Kelvin0 == 273150
\* data.py:115  horizon of the air-quality time block
AqHorizon == 24
\* data.py:208  max(q.hours_fwd, 24)
PrecipHorizon == 24
\* data.py:266  _predict_time_block(dt, 72)
TempHorizon == 72
\* data.py:327  max(q.hours_fwd, 48)
WindHorizon == 48

(* ------------------------------ arithmetic ----------------------------- *)
Abs(x) == IF x < 0 THEN -x ELSE x

Max(a, b) == IF a >= b THEN a ELSE b

Min(a, b) == IF a <= b THEN a ELSE b

\* 10^(3-d): the thousandths in one unit of the d-th decimal place
Unit(decimals) == CASE decimals = 0 -> 1000
                    [] decimals = 1 -> 100
                    [] decimals = 2 -> 10
                    [] OTHER -> 1

\* the integer nearest to n/m (m > 0), ties to even: Python's round()
RoundHalfEven(n, m) ==
    LET q == n \div m
        r == n % m
    IN  IF 2 * r < m THEN q
        ELSE IF 2 * r > m THEN q + 1
        ELSE IF q % 2 = 0 THEN q ELSE q + 1

\* round(x, decimals) of x = n/m thousandths, result in thousandths
Round(n, m, decimals) == RoundHalfEven(n, m * Unit(decimals)) * Unit(decimals)

RECURSIVE SqrtBetween(_, _, _)
SqrtBetween(x, lo, hi) ==
    IF hi - lo <= 1 THEN lo
    ELSE LET mid == (lo + hi) \div 2
         IN  IF mid * mid <= x THEN SqrtBetween(x, mid, hi)
             ELSE SqrtBetween(x, lo, mid)

\* floor of the square root of x, 0 <= x < 2^31
ISqrt(x) == SqrtBetween(x, 0, 46341)

RECURSIVE SeqSum(_)
SeqSum(s) == IF s = <<>> THEN 0 ELSE Head(s) + SeqSum(Tail(s))

Range(s) == {s[i] : i \in 1..Len(s)}

\* how many times x occurs in the sequence s
Count(s, x) == Cardinality({i \in 1..Len(s) : s[i] = x})


(* -------------------------------- state -------------------------------- *)
VARIABLES
    hashSalt,        \* the interpreter's per-process string-hash secret
    airnow_api_key,  \* settings.airnow_api_key is set (core/config.py)
    now,             \* the wall clock, in half-hours
    pc,              \* where the request in flight is
    q,               \* the request body
    dt,              \* the handler's dt = parse_date(q.when)
    frame,           \* locals of the handler and of the adapter it awaits
    obs,             \* recent_observations
    faker_filled,    \* extra_context.faker_filled
    sources,         \* the source descriptors collected so far
    liveVars,        \* names whose value in obs came from a live adapter
    trace,           \* upstream GETs and synthetic draws of this request
    resp,            \* the response
    synArgs,         \* pure-function specifications: the arguments
    synOut           \* pure-function specifications: the values returned so far

vars == <<hashSalt, airnow_api_key, now, pc, q, dt, frame, obs, faker_filled,
          sources, liveVars, trace, resp, synArgs, synOut>>

reqVars == <<pc, q, dt, frame, obs, faker_filled, sources, liveVars, trace, resp>>

None == [some |-> FALSE, v |-> 0]

Some(x) == [some |-> TRUE, v |-> x]

(* ---------------------- synthetic value generator ---------------------- *)
\* width of the modelled string hash (the interpreter's is 64 bits)
HashMod == 65536
\* resolution of the modelled random(): k / RandRes, k in 0..RandRes-1
RandRes == 2048

\* the variable names the handlers draw synthetic values for
SynthVars == <<"PM2.5", "NO2", "O3", "imerg_rate_u1", "imerg_rate_u2",
               "humidity", "skin_temp", "temperature", "tmax_boost",
               "tmin_boost", "cloud_cover", "wind_speed", "gust_factor",
               "wind_dir", "pressure">>

VarCode(var) == CHOOSE i \in 1..Len(SynthVars) : SynthVars[i] = var

\* hash(s) of s = f"{lat:.4f},{lon:.4f}|{dt_iso}|{var}": a keyed rolling hash of
\* the fields of s, read as a signed integer.  The key is the process's secret.
PyHash(salt, lat, lon, dt_iso, var) ==
    LET h0 == (5381 + salt * 40503) % HashMod
        h1 == (h0 * 33 + (lat + 90)) % HashMod
        h2 == (h1 * 33 + (lon + 180)) % HashMod
        h3 == (h2 * 33 + dt_iso) % HashMod
        h4 == (h3 * 33 + VarCode(var)) % HashMod
    IN  IF h4 >= HashMod \div 2 THEN h4 - HashMod ELSE h4

_seed_from(lat, lon, dt_iso, var) ==
    Abs(PyHash(hashSalt, lat, lon, dt_iso, var)) % SeedModulus

\* random.Random(seed).random(), as k with the value k / RandRes
RandomUnit(seed) == ((seed % RandRes) * 37 + seed \div RandRes) % RandRes

\* a generator stepping down from lo by the span instead of up
uniformDescending(k, lo, hi) == lo * RandRes - (hi - lo) * k

\* rnd.uniform(lo, hi) = lo + (hi - lo) * random() for random() = k / RandRes,
\* as the numerator of a fraction over RandRes
uniform(k, lo, hi) == lo * RandRes + (hi - lo) * k

\* round(rnd.uniform(lo, hi), decimals) when random() returns k / RandRes
RoundedUniform(k, lo, hi, decimals) == Round(uniform(k, lo, hi), RandRes, decimals)

_fake_uniform(lat, lon, dt_iso, var, lo, hi, decimals) ==
    RoundedUniform(RandomUnit(_seed_from(lat, lon, dt_iso, var)), lo, hi, decimals)

\* round((u1 * u2) * 12.0, 2), the synthetic precipitation rate
fake_rain(u1, u2) == Round(u1 * u2 * 12, 1000, 2)

(* ------------------------------ utils/time ----------------------------- *)
\* q.when: absent, an ISO-8601 string naming the half-hour t, or a string
\* datetime.fromisoformat rejects
NoWhen == [kind |-> "none", t |-> 0]

IsoWhen(t) == [kind |-> "iso", t |-> t]

BadWhen == [kind |-> "bad", t |-> 0]

\* parse_date raises ValueError
ParseDateRaises(s) == s.kind = "bad"

\* parse_date(s) at clock reading `clock`: "if not s: return datetime.now(utc)"
parse_date(s, clock) == IF s.kind = "none" THEN clock ELSE s.t

(* ------------------------------ descriptors ---------------------------- *)
DataSource(name, url, note, auth_required) ==
    [name |-> name, url |-> url, note |-> note, auth_required |-> auth_required]

\* a GET issued by utils/http.py get_json / get_text
Get(adapter, url) == [op |-> "GET", adapter |-> adapter, url |-> url]

\* a draw from the synthetic generator
Draw(var) == [op |-> "synth", adapter |-> "faker", url |-> <<var>>]

Gets(tr) == {i \in 1..Len(tr) : tr[i].op = "GET"}

(* ------------------------------ utils/http ----------------------------- *)
\* what awaiting client.get + raise_for_status (+ r.json()) can come to:
\* a body, httpx.HTTPStatusError, a transport failure (connect error, timeout),
\* or, for get_json, a body that is not JSON
HttpFailures == {"status", "transport", "decode"}

TextFailures == {"status", "transport"}

\* exceptions that "except httpx.HTTPStatusError" does not catch
EscapesStatusHandler(kind) == kind \in {"transport", "decode"}

ExcName(kind) == CASE kind = "status" -> "HTTPStatusError"
                   [] kind = "transport" -> "TransportError"
                   [] OTHER -> "JSONDecodeError"

(* ------------------------------- requests ------------------------------ *)
Endpoints == {"air_quality", "precipitation", "temperature", "wind"}

LatInputs == {-91, 40, 90}

LonInputs == {-74, 181}

WhenInputs == {NoWhen, IsoWhen(1), BadWhen}

\* hours_fwd (precipitation, wind), days_fwd (temperature); unused by air quality
FwdInputs(endpoint) == CASE endpoint = "precipitation" -> {12, 72}
                         [] endpoint = "wind" -> {12, 72}
                         [] endpoint = "temperature" -> {2, 4}
                         [] OTHER -> {0}

FlagInputs(endpoint) == IF endpoint = "air_quality" THEN BOOLEAN ELSE {TRUE}

NoRequest == [endpoint |-> "none", output_mode |-> "raw", lat |-> 0, lon |-> 0,
              when |-> NoWhen, include_ground |-> TRUE, include_sat |-> TRUE,
              fwd |-> 0]

\* schemas/common.py Location: Field(ge=-90, le=90), Field(ge=-180, le=180)
LocationValid(lat, lon) == lat >= -90 /\ lat <= 90 /\ lon >= -180 /\ lon <= 180

EmptyFrame == [x \in {} |-> 0]

NoResp == [status |-> 0, kind |-> "none", exc |-> "", raised_in |-> "",
           body |-> EmptyFrame]

\* an exception leaves the handler: the framework answers 500
Unhandled(exc, where) ==
    [status |-> 500, kind |-> "error", exc |-> exc, raised_in |-> where,
     body |-> EmptyFrame]

\* the request body fails validation: the framework answers 422
Unprocessable == [status |-> 422, kind |-> "error", exc |-> "RequestValidationError",
                  raised_in |-> "schema", body |-> EmptyFrame]

_predict_time_block(d, horizon_hours) ==
    [datetime_iso |-> d, horizon_hours |-> horizon_hours]

_predict_point(r) == [lat |-> r.lat, lon |-> r.lon]

\* the dict a predict branch returns
SynthesizedBundle(d, horizon, ro, ff, srcs) ==
    [status |-> 200, kind |-> "SynthesizedBundle", exc |-> "", raised_in |-> "",
     body |-> [point |-> _predict_point(q),
               time |-> _predict_time_block(d, horizon),
               recent_observations |-> ro,
               faker_filled |-> ff,
               sources |-> srcs]]

\* DataBundle(location=..., timestamp=dt.isoformat(), sources=..., artifacts=...)
DataBundle(d, srcs, artifacts) ==
    [status |-> 200, kind |-> "DescriptorBundle", exc |-> "", raised_in |-> "",
     body |-> [location |-> _predict_point(q), timestamp |-> d,
               sources |-> srcs, artifacts |-> artifacts]]

Observation(name, value, unit) == [name |-> name, value |-> value, unit |-> unit]

Init ==
    /\ hashSalt \in 0..MaxSalt
    /\ airnow_api_key \in BOOLEAN
    /\ now = 0
    /\ pc = "idle"
    /\ q = NoRequest
    /\ dt = 0
    /\ frame = EmptyFrame
    /\ obs = <<>>
    /\ faker_filled = <<>>
    /\ sources = <<>>
    /\ liveVars = {}
    /\ trace = <<>>
    /\ resp = NoResp
    /\ synArgs = <<>>
    /\ synOut = <<>>

\* a request arrives and the framework validates its body against the schema
Arrive ==
    /\ pc = "idle"
    /\ \E ep \in Endpoints, mode \in {"raw", "predict"}, lat \in LatInputs,
          lon \in LonInputs, when \in WhenInputs :
       \E fwd \in FwdInputs(ep), ground \in FlagInputs(ep), sat \in FlagInputs(ep) :
          /\ q' = [endpoint |-> ep, output_mode |-> mode, lat |-> lat, lon |-> lon,
                   when |-> when, include_ground |-> ground, include_sat |-> sat,
                   fwd |-> fwd]
          /\ IF LocationValid(lat, lon)
             THEN pc' = "handler" /\ resp' = NoResp
             ELSE pc' = "responded" /\ resp' = Unprocessable
    /\ UNCHANGED <<hashSalt, airnow_api_key, now, dt, frame, obs, faker_filled,
                   sources, liveVars, trace, synArgs, synOut>>

\* the response is sent; everything request-scoped is discarded
Finish ==
    /\ pc = "responded"
    /\ pc' = "idle"
    /\ q' = NoRequest
    /\ dt' = 0
    /\ frame' = EmptyFrame
    /\ obs' = <<>>
    /\ faker_filled' = <<>>
    /\ sources' = <<>>
    /\ liveVars' = {}
    /\ trace' = <<>>
    /\ resp' = NoResp
    /\ UNCHANGED <<hashSalt, airnow_api_key, now, synArgs, synOut>>

\* time passes while a GET is awaited
Elapse == \E d \in 0..1 : now' = Min(now + d, MaxClock)

(* --------------------------- services/merra2 -------------------------- *)
merra2_urls(variables, date_iso) ==
    <<DataSource("MERRA-2 (OPeNDAP 1h single-level)", <<"merra2-template">>,
                 variables, TRUE)>>

airs_urls(date_iso) ==
    <<DataSource("AIRS L3 Daily (OPeNDAP)", <<"airs-template">>,
                 "Temperatura/humedad diaria; Earthdata requerido.", TRUE)>>

\* services/gibs_worldview.py: builds a URL from dt = parse_date(when); no request
snapshot_geotiff(lat, lon, when, layer, clock) ==
    DataSource("GIBS Worldview", <<"snapshot", layer, parse_date(when, clock) \div 48,
                                   lat, lon>>,
               "GeoTIFF via Worldview Snapshots", FALSE)

\* int(round((lat + 90.0) / 0.5))
_m2_idx_lat(lat) == RoundHalfEven((lat + 90) * 2, 1)

\* int(round((lon + 180.0) / 0.625))
_m2_idx_lon(lon) == RoundHalfEven((lon + 180) * 8, 5)

\* dt.hour, dt in half-hours
_m2_time_idx(d) == (d % 48) \div 2

\* the day of the granule, then ?var[t:t][j:j][i:i]
_merra2_ascii_url(var, lat, lon, d) ==
    <<var, d \div 48, _m2_time_idx(d),
      Max(0, Min(360, _m2_idx_lat(lat))), Max(0, Min(575, _m2_idx_lon(lon)))>>

\* values an upstream granule can hold, in thousandths (K, %, m/s)
M2Values(var) == CASE var = "T2M" -> {268150, 293150}
                   [] var = "RH2M" -> {55000}
                   [] var = "TS" -> {290150}
                   [] var = "U10M" -> {3000}
                   [] OTHER -> {-4000}

\* what get_text(url) comes to: a body where the pattern "var[..] = VALUE"
\* matches, a body where it does not, or an exception
M2Outcomes(var) ==
    {[kind |-> "text", match |-> TRUE, value |-> v] : v \in M2Values(var)}
    \cup {[kind |-> "text", match |-> FALSE, value |-> 0]}
    \cup {[kind |-> k, match |-> FALSE, value |-> 0] : k \in TextFailures}

\* the try / except Exception of _fetch_m2_scalar
M2Result(var, url, out) ==
    IF out.kind # "text"
    THEN [val |-> None, src |-> DataSource("MERRA-2 (error)", url,
                                           "Fallo OPeNDAP/credenciales", TRUE)]
    ELSE IF ~out.match
    THEN [val |-> None, src |-> DataSource("MERRA-2 (ascii subset)", url,
                                           "Sin valor", TRUE)]
    ELSE [val |-> Some(out.value), src |-> DataSource("MERRA-2", url,
                                           "OPeNDAP subset .ascii", TRUE)]

\* the handler awaits _fetch_m2_scalar(var, ...) and resumes at `cont`
CallM2(var, cont, locals) ==
    /\ pc' = "m2"
    /\ frame' = ("var" :> var) @@ ("cont" :> cont) @@ locals

\* an adapter that repeats its GET while the fetch fails
_fetch_m2_scalar_retrying ==
    /\ pc = "m2"
    /\ \E out \in M2Outcomes(frame["var"]) :
          LET url == _merra2_ascii_url(frame["var"], q.lat, q.lon,
                                       parse_date(q.when, now))
          IN  /\ trace' = Append(trace, Get("merra2", url))
              /\ frame' = ("ret" :> M2Result(frame["var"], url, out)) @@ frame
              /\ pc' = IF out.kind # "text" THEN "m2" ELSE frame["cont"]
    /\ Elapse
    /\ UNCHANGED <<hashSalt, airnow_api_key, q, dt, obs, faker_filled, sources,
                   liveVars, resp, synArgs, synOut>>

\* _fetch_m2_scalar: dt = parse_date(when_iso), one GET, parse the body
_fetch_m2_scalar ==
    /\ pc = "m2"
    /\ \E out \in M2Outcomes(frame["var"]) :
          LET url == _merra2_ascii_url(frame["var"], q.lat, q.lon,
                                       parse_date(q.when, now))
          IN  /\ trace' = Append(trace, Get("merra2", url))
              /\ frame' = ("ret" :> M2Result(frame["var"], url, out)) @@ frame
    /\ pc' = frame["cont"]
    /\ Elapse
    /\ UNCHANGED <<hashSalt, airnow_api_key, q, dt, obs, faker_filled, sources,
                   liveVars, resp, synArgs, synOut>>

\* fetch_t2m_c / fetch_ts_c: K -> degrees C when there is a value
KelvinToC(r) == IF r.val.some THEN Some(r.val.v - Kelvin0) ELSE None

(* ----------------------------- /data/temperature ----------------------- *)
temperature_raw_sources(clock) ==
    airs_urls(q.when) \o merra2_urls("T2M, TMAX, TMIN, CLD", q.when)
    \o <<snapshot_geotiff(q.lat, q.lon, q.when, "MODIS_Terra_Cloud_Top_Properties",
                          clock)>>

temperature_data ==
    /\ pc = "handler"
    /\ q.endpoint = "temperature"
    /\ IF ParseDateRaises(q.when)
       THEN /\ resp' = Unhandled("ValueError", "parse_date")
            /\ pc' = "responded"
            /\ UNCHANGED <<dt, frame, sources>>
       ELSE /\ dt' = parse_date(q.when, now)
            /\ IF q.output_mode = "predict"
               THEN /\ CallM2("T2M", "temperature_t2m", EmptyFrame)
                    /\ UNCHANGED <<resp, sources>>
               ELSE /\ sources' = temperature_raw_sources(now)
                    /\ resp' = DataBundle(dt', sources', EmptyFrame)
                    /\ pc' = "responded"
                    /\ UNCHANGED frame
    /\ UNCHANGED <<hashSalt, airnow_api_key, now, q, obs, faker_filled, liveVars,
                   trace, synArgs, synOut>>

\* after "t2m_c, src_t = await fetch_t2m_c(...)", up to the next await
temperature_t2m ==
    /\ pc = "temperature_t2m"
    /\ LET t2m == KelvinToC(frame["ret"])
           fake == _fake_uniform(q.lat, q.lon, dt, "temperature", -5000, 38000, 1)
       IN  /\ CallM2("RH2M", "temperature_rh2m",
                     ("t2m_c" :> (IF t2m.some THEN t2m.v ELSE fake))
                     @@ ("src_t" :> frame["ret"].src))
           /\ faker_filled' = IF t2m.some THEN faker_filled
                              ELSE Append(faker_filled, "temperature")
           /\ liveVars' = IF t2m.some THEN liveVars \cup {"temperature"} ELSE liveVars
           /\ trace' = IF t2m.some THEN trace ELSE Append(trace, Draw("temperature"))
    /\ UNCHANGED <<hashSalt, airnow_api_key, now, q, dt, obs, sources, resp,
                   synArgs, synOut>>

\* after "rh2m, src_rh = await fetch_rh2m(...)", to the returned body
temperature_rh2m ==
    /\ pc = "temperature_rh2m"
    /\ LET rh == frame["ret"].val
           fake == _fake_uniform(q.lat, q.lon, dt, "humidity", 20000, 95000, 0)
           rh2m == IF rh.some THEN rh.v ELSE fake
           t2m_c == frame["t2m_c"]
           tmax_24h == Round(t2m_c + _fake_uniform(q.lat, q.lon, dt, "tmax_boost",
                                                   500, 6500, 1), 1, 1)
           tmin_24h == Round(t2m_c - _fake_uniform(q.lat, q.lon, dt, "tmin_boost",
                                                   500, 7000, 1), 1, 1)
           cloud_cover == _fake_uniform(q.lat, q.lon, dt, "cloud_cover", 5000, 95000, 0)
           ro == <<Observation("temperature", t2m_c, "C"),
                   Observation("humidity", rh2m, "%"),
                   Observation("t_max_24h", tmax_24h, "C"),
                   Observation("t_min_24h", tmin_24h, "C"),
                   Observation("cloud_cover", cloud_cover, "%")>>
       IN  /\ obs' = ro
           /\ faker_filled' = IF rh.some THEN faker_filled
                              ELSE Append(faker_filled, "humidity")
           /\ liveVars' = IF rh.some THEN liveVars \cup {"humidity"} ELSE liveVars
           /\ trace' = (IF rh.some THEN trace ELSE Append(trace, Draw("humidity")))
                       \o <<Draw("tmax_boost"), Draw("tmin_boost"), Draw("cloud_cover")>>
           /\ sources' = <<frame["src_t"], frame["ret"].src>>
           /\ resp' = SynthesizedBundle(dt, TempHorizon, obs', faker_filled', sources')
    /\ pc' = "responded"
    /\ UNCHANGED <<hashSalt, airnow_api_key, now, q, dt, frame, synArgs, synOut>>

(* --------------------------- services/imerg ---------------------------- *)
\* int(round((lat + 90.0) * 10.0)), int(round((lon + 180.0) * 10.0))
_imerg_idx_lat(lat) == RoundHalfEven((lat + 90) * 10, 1)

_imerg_idx_lon(lon) == RoundHalfEven((lon + 180) * 10, 1)

\* the granule of the half-hour window holding d, then
\* ?precipitationCal[y0:y1][x0:x1]
build_imerg_ascii_url(lat, lon, d, radius_cells) ==
    LET iy == _imerg_idx_lat(lat)
        ix == _imerg_idx_lon(lon)
    IN  <<"precipitationCal", d \div 48, d % 48,
          Max(0, iy - radius_cells), Min(1799, iy + radius_cells),
          Max(0, ix - radius_cells), Min(3599, ix + radius_cells)>>

\* imerg_urls(when_iso) -> list[str]: URL strings, not DataSource objects
imerg_urls(when_iso, clock) ==
    <<[str |-> build_imerg_ascii_url(0, 0, parse_date(when_iso, clock), 0)]>>

\* def imerg_urls(when_iso: str): the positional parameters it accepts
imerg_urls_params == 1

\* what get_text(url) comes to: `cal` are the values the pattern
\* "precipitationCal[..][..] = VALUE" matches, `loose` the numeric tokens of the
\* body the fallback scan finds
ImergOutcomes ==
    {[kind |-> "text", cal |-> <<2500>>, loose |-> <<2500>>],
     [kind |-> "text", cal |-> <<>>, loose |-> <<1500>>],
     [kind |-> "text", cal |-> <<>>, loose |-> <<>>],
     [kind |-> "status", cal |-> <<>>, loose |-> <<>>],
     [kind |-> "transport", cal |-> <<>>, loose |-> <<>>]}

\* the try / except Exception of fetch_imerg_rate_mm_per_hr
ImergResult(url, out) ==
    LET vals == IF out.cal # <<>> THEN out.cal ELSE out.loose
    IN  IF out.kind # "text"
        THEN [val |-> None, src |-> DataSource("IMERG (error)", url,
                                               "Fallo OPeNDAP/credenciales", TRUE)]
        ELSE IF vals = <<>>
        THEN [val |-> None, src |-> DataSource("IMERG (ascii subset)", url,
                                               "Sin datos en pixel", TRUE)]
        ELSE [val |-> Some(SeqSum(vals) \div Len(vals)),
              src |-> DataSource("IMERG precipitationCal (mm/h)", url,
                                 "OPeNDAP subset .ascii", TRUE)]

\* fetch_imerg_rate_mm_per_hr(lat, lon, when_iso): radius_cells = 0
fetch_imerg_rate_mm_per_hr ==
    /\ pc = "imerg"
    /\ \E out \in ImergOutcomes :
          LET url == build_imerg_ascii_url(q.lat, q.lon, parse_date(q.when, now), 0)
          IN  /\ trace' = Append(trace, Get("imerg", url))
              /\ frame' = ("ret" :> ImergResult(url, out)) @@ frame
    /\ pc' = "precipitation_imerg"
    /\ Elapse
    /\ UNCHANGED <<hashSalt, airnow_api_key, q, dt, obs, faker_filled, sources,
                   liveVars, resp, synArgs, synOut>>

(* ---------------------------- /data/precipitation ---------------------- *)
\* the arguments the raw branch passes: imerg_urls(lat, lon, when, hours_back,
\* hours_fwd)
precipitation_raw_args == 5

\* DataBundle validates sources: list[DataSource]
SourcesValid(srcs) == \A i \in 1..Len(srcs) : "name" \in DOMAIN srcs[i]

precipitation_data ==
    /\ pc = "handler"
    /\ q.endpoint = "precipitation"
    /\ IF ParseDateRaises(q.when)
       THEN /\ resp' = Unhandled("ValueError", "parse_date")
            /\ pc' = "responded"
            /\ UNCHANGED <<dt, frame, sources>>
       ELSE /\ dt' = parse_date(q.when, now)
            /\ IF q.output_mode = "predict"
               THEN /\ pc' = "imerg"
                    /\ UNCHANGED <<resp, sources, frame>>
               ELSE /\ pc' = "responded"
                    /\ IF precipitation_raw_args # imerg_urls_params
                       THEN /\ resp' = Unhandled("TypeError", "imerg_urls")
                            /\ UNCHANGED sources
                       ELSE /\ sources' = imerg_urls(q.when, now)
                            /\ resp' = IF SourcesValid(sources')
                                       THEN DataBundle(dt', sources', EmptyFrame)
                                       ELSE Unhandled("ValidationError", "DataBundle")
                    /\ UNCHANGED frame
    /\ UNCHANGED <<hashSalt, airnow_api_key, now, q, obs, faker_filled, liveVars,
                   trace, synArgs, synOut>>

\* after "imerg_val, imerg_src = await fetch_imerg_rate_mm_per_hr(...)"
precipitation_imerg ==
    /\ pc = "precipitation_imerg"
    /\ LET r == frame["ret"].val
           u1 == _fake_uniform(q.lat, q.lon, dt, "imerg_rate_u1", 0, 1000, 3)
           u2 == _fake_uniform(q.lat, q.lon, dt, "imerg_rate_u2", 0, 1000, 3)
       IN  /\ CallM2("RH2M", "precipitation_rh2m",
                     ("imerg_val" :> (IF r.some THEN r.v ELSE fake_rain(u1, u2)))
                     @@ ("imerg_src" :> frame["ret"].src))
           /\ faker_filled' = IF r.some THEN faker_filled
                              ELSE Append(faker_filled, "imerg_rate")
           /\ liveVars' = IF r.some THEN liveVars \cup {"imerg_rate"} ELSE liveVars
           /\ trace' = IF r.some THEN trace
                       ELSE trace \o <<Draw("imerg_rate_u1"), Draw("imerg_rate_u2")>>
    /\ UNCHANGED <<hashSalt, airnow_api_key, now, q, dt, obs, sources, resp,
                   synArgs, synOut>>

\* after "rh2m, rh_src = await fetch_rh2m(...)"
precipitation_rh2m ==
    /\ pc = "precipitation_rh2m"
    /\ LET r == frame["ret"].val
           fake == _fake_uniform(q.lat, q.lon, dt, "humidity", 35000, 95000, 0)
       IN  /\ CallM2("TS", "precipitation_ts",
                     ("rh2m" :> (IF r.some THEN r.v ELSE fake))
                     @@ ("rh_src" :> frame["ret"].src)
                     @@ ("imerg_val" :> frame["imerg_val"])
                     @@ ("imerg_src" :> frame["imerg_src"]))
           /\ faker_filled' = IF r.some THEN faker_filled
                              ELSE Append(faker_filled, "humidity")
           /\ liveVars' = IF r.some THEN liveVars \cup {"humidity"} ELSE liveVars
           /\ trace' = IF r.some THEN trace ELSE Append(trace, Draw("humidity"))
    /\ UNCHANGED <<hashSalt, airnow_api_key, now, q, dt, obs, sources, resp,
                   synArgs, synOut>>

\* after "ts_c, ts_src = await fetch_ts_c(...)", to the returned body
precipitation_ts ==
    /\ pc = "precipitation_ts"
    /\ LET r == KelvinToC(frame["ret"])
           fake == _fake_uniform(q.lat, q.lon, dt, "skin_temp", 5000, 35000, 1)
           ts_c == IF r.some THEN r.v ELSE fake
           ro == <<Observation("imerg_rate", frame["imerg_val"], "mm/h"),
                   Observation("humidity", frame["rh2m"], "%"),
                   Observation("skin_temp", ts_c, "C")>>
       IN  /\ obs' = ro
           /\ faker_filled' = IF r.some THEN faker_filled
                              ELSE Append(faker_filled, "skin_temp")
           /\ liveVars' = IF r.some THEN liveVars \cup {"skin_temp"} ELSE liveVars
           /\ trace' = IF r.some THEN trace ELSE Append(trace, Draw("skin_temp"))
           /\ sources' = <<frame["imerg_src"], frame["rh_src"], frame["ret"].src>>
           /\ resp' = SynthesizedBundle(dt, Max(q.fwd, PrecipHorizon), obs',
                                        faker_filled', sources')
    /\ pc' = "responded"
    /\ UNCHANGED <<hashSalt, airnow_api_key, now, q, dt, frame, synArgs, synOut>>

(* -------------------------------- /data/wind --------------------------- *)
wind_raw_sources ==
    merra2_urls("U10M, V10M, PS, MSLP", q.when)
    \o <<DataSource("CYGNSS Winds (PO.DAAC) - template", <<"podaac-cygnss">>,
                    "Descarga/granules con Earthdata", TRUE),
         DataSource("AMSR2 Ocean Surface Winds - template", <<"podaac-amsr2">>,
                    "AMSR2 (JAXA) indexado en PO.DAAC", TRUE)>>

wind_data ==
    /\ pc = "handler"
    /\ q.endpoint = "wind"
    /\ IF ParseDateRaises(q.when)
       THEN /\ resp' = Unhandled("ValueError", "parse_date")
            /\ pc' = "responded"
            /\ UNCHANGED <<dt, frame, sources>>
       ELSE /\ dt' = parse_date(q.when, now)
            /\ IF q.output_mode = "predict"
               THEN /\ CallM2("U10M", "fetch_wind10m_u", EmptyFrame)
                    /\ UNCHANGED <<resp, sources>>
               ELSE /\ sources' = wind_raw_sources
                    /\ resp' = DataBundle(dt', sources', EmptyFrame)
                    /\ pc' = "responded"
                    /\ UNCHANGED frame
    /\ UNCHANGED <<hashSalt, airnow_api_key, now, q, obs, faker_filled, liveVars,
                   trace, synArgs, synOut>>

\* fetch_wind10m after "u, src_u = await _fetch_m2_scalar("U10M", ...)"
fetch_wind10m_u ==
    /\ pc = "fetch_wind10m_u"
    /\ CallM2("V10M", "fetch_wind10m_v",
              ("u" :> frame["ret"].val) @@ ("src_u" :> frame["ret"].src))
    /\ UNCHANGED <<hashSalt, airnow_api_key, now, q, dt, obs, faker_filled, sources,
                   liveVars, trace, resp, synArgs, synOut>>

\* math.sqrt(u * u + v * v), or None when a component is missing
WindSpeed(u, v) == IF ~u.some \/ ~v.some THEN None
                   ELSE Some(ISqrt(u.v * u.v + v.v * v.v))

\* fetch_wind10m after "v, src_v = await ...", then wind_data to the returned body
fetch_wind10m_v ==
    /\ pc = "fetch_wind10m_v"
    /\ LET w_mps == WindSpeed(frame["u"], frame["ret"].val)
           fake_kmh == _fake_uniform(q.lat, q.lon, dt, "wind_speed", 2000, 70000, 1)
           factor == _fake_uniform(q.lat, q.lon, dt, "gust_factor", 1300, 1800, 2)
           wind_speed_kmh == IF w_mps.some THEN Round(w_mps.v * 36, 10, 1) ELSE fake_kmh
           gust_kmh == IF w_mps.some THEN Round(wind_speed_kmh * 15, 10, 1)
                       ELSE Round(fake_kmh * factor, 1000, 1)
           wind_dir == _fake_uniform(q.lat, q.lon, dt, "wind_dir", 0, 360000, 0)
           pressure_hpa == _fake_uniform(q.lat, q.lon, dt, "pressure", 800000, 1020000, 0)
           ro == <<Observation("wind_speed", wind_speed_kmh, "km/h"),
                   Observation("wind_gust", gust_kmh, "km/h"),
                   Observation("wind_dir", wind_dir, "deg"),
                   Observation("pressure", pressure_hpa, "hPa")>>
       IN  /\ obs' = ro
           /\ faker_filled' = IF w_mps.some THEN faker_filled
                              ELSE faker_filled \o <<"wind_speed", "wind_gust">>
           /\ liveVars' = IF w_mps.some THEN liveVars \cup {"wind_speed", "wind_gust"}
                          ELSE liveVars
           /\ trace' = (IF w_mps.some THEN trace
                        ELSE trace \o <<Draw("wind_speed"), Draw("gust_factor")>>)
                       \o <<Draw("wind_dir"), Draw("pressure")>>
           /\ sources' = <<frame["src_u"], frame["ret"].src>>
           /\ resp' = SynthesizedBundle(dt, Max(q.fwd, WindHorizon), obs',
                                        faker_filled', sources')
    /\ pc' = "responded"
    /\ UNCHANGED <<hashSalt, airnow_api_key, now, q, dt, frame, synArgs, synOut>>

(* ------------------------ services/openaq_airnow ----------------------- *)
Sensor(id, name, units) == [id |-> id, name |-> name, units |-> units]

Latest(sensorsId, value) == [sensorsId |-> sensorsId, value |-> value]

\* /v3/locations?coordinates=...: the "results" of the body
LocsBodies == {<<>>, <<[id |-> 7]>>}

\* /v3/locations/{id}: the sensors of results[0] (<<>> also stands for a body
\* with no results).  Station A carries two PM2.5 sensors and an NO2 sensor in
\* ppm; station B one sensor per pollutant and a CO sensor.
DetailBodies ==
    {<<>>,
     <<Sensor(1, "pm25", "ug/m3"), Sensor(2, "pm25", "ug/m3"), Sensor(3, "no2", "ppm")>>,
     <<Sensor(1, "pm25", "ug/m3"), Sensor(3, "no2", "ppb"), Sensor(4, "o3", "ppm"),
       Sensor(5, "co", "ppm")>>}

\* /v3/locations/{id}/latest: the "results" of the body
LatestBodies ==
    {<<>>,
     <<Latest(1, Some(12000)), Latest(2, Some(15500)), Latest(3, Some(40))>>,
     <<Latest(1, Some(0)), Latest(3, None), Latest(4, Some(31)), Latest(5, Some(400)),
       Latest(9, Some(1000))>>}

Wanted == {"pm25", "no2", "o3"}

\* sensor_map[sid] = {"name": ..., "units": ...}; a later sensor of the same id
\* replaces an earlier one
SensorMap(sensors) ==
    [sid \in {sensors[i].id : i \in 1..Len(sensors)} |->
        LET last == CHOOSE i \in 1..Len(sensors) :
                        /\ sensors[i].id = sid
                        /\ \A j \in 1..Len(sensors) : sensors[j].id = sid => j <= i
        IN  [name |-> sensors[last].name, units |-> sensors[last].units]]

\* "PM2.5" if pname == "pm25" else pname.upper()
OutName(pname) == CASE pname = "pm25" -> "PM2.5"
                    [] pname = "no2" -> "NO2"
                    [] pname = "o3" -> "O3"
                    [] OTHER -> "OTHER"

\* the loop over latest["results"] of openaq_latest_nearby_values
RECURSIVE Observations(_, _)
Observations(results, sensor_map) ==
    IF results = <<>> THEN <<>>
    ELSE LET r == Head(results)
             rest == Observations(Tail(results), sensor_map)
         IN  IF r.sensorsId \notin DOMAIN sensor_map THEN rest
             ELSE LET meta == sensor_map[r.sensorsId]
                      ppm == meta.name \in {"no2", "o3"} /\ meta.units = "ppm"
                  IN  IF meta.name \in Wanted /\ r.value.some
                      THEN <<Observation(OutName(meta.name),
                                         IF ppm THEN r.value.v * 1000 ELSE r.value.v,
                                         IF ppm THEN "ppb" ELSE meta.units)>> \o rest
                      ELSE rest

\* what the adapter hands back: (payload, DataSource)
OpenAQReturn(tag, observations, srcname, url) ==
    [payload |-> [tag |-> tag, observations |-> observations],
     src |-> DataSource(srcname, url, "OpenAQ v3 locations->latest", TRUE)]

\* what get_json(url) comes to: a parsed body or an exception
JsonOutcomes(bodies) ==
    {[kind |-> "json", body |-> b] : b \in bodies}
    \cup {[kind |-> k, body |-> <<>>] : k \in HttpFailures}

\* step 1 of openaq_latest_nearby_values: the nearest station
openaq_locs ==
    /\ pc = "openaq_locs"
    /\ \E out \in JsonOutcomes(LocsBodies) :
          LET url == <<"locations", "coordinates", q.lat, q.lon>>
          IN  /\ trace' = Append(trace, Get("openaq", url))
              /\ IF out.kind = "status"
                 THEN /\ frame' = ("ret" :> OpenAQReturn("error", <<>>,
                                                  "OpenAQ v3 (error)", url)) @@ frame
                      /\ pc' = "air_quality_ground"
                      /\ UNCHANGED resp
                 ELSE IF EscapesStatusHandler(out.kind)
                 THEN /\ resp' = Unhandled(ExcName(out.kind), "openaq_latest_nearby_values")
                      /\ pc' = "responded"
                      /\ UNCHANGED frame
                 ELSE IF out.body = <<>>
                 THEN /\ frame' = ("ret" :> OpenAQReturn("warning", <<>>,
                                                  "OpenAQ locations", url)) @@ frame
                      /\ pc' = "air_quality_ground"
                      /\ UNCHANGED resp
                 ELSE /\ frame' = ("loc_id" :> out.body[1].id) @@ frame
                      /\ pc' = "openaq_detail"
                      /\ UNCHANGED resp
    /\ Elapse
    /\ UNCHANGED <<hashSalt, airnow_api_key, q, dt, obs, faker_filled, sources,
                   liveVars, synArgs, synOut>>

\* step 2: the station's sensors
openaq_detail ==
    /\ pc = "openaq_detail"
    /\ \E out \in JsonOutcomes(DetailBodies) :
          LET url == <<"locations", frame["loc_id"]>>
          IN  /\ trace' = Append(trace, Get("openaq", url))
              /\ IF out.kind = "status"
                 THEN /\ frame' = ("ret" :> OpenAQReturn("error", <<>>,
                                                  "OpenAQ v3 (error)", url)) @@ frame
                      /\ pc' = "air_quality_ground"
                      /\ UNCHANGED resp
                 ELSE IF EscapesStatusHandler(out.kind)
                 THEN /\ resp' = Unhandled(ExcName(out.kind), "openaq_latest_nearby_values")
                      /\ pc' = "responded"
                      /\ UNCHANGED frame
                 ELSE /\ frame' = ("sensor_map" :> SensorMap(out.body)) @@ frame
                      /\ pc' = "openaq_latest"
                      /\ UNCHANGED resp
    /\ Elapse
    /\ UNCHANGED <<hashSalt, airnow_api_key, q, dt, obs, faker_filled, sources,
                   liveVars, synArgs, synOut>>

\* step 3: the latest value of each sensor
openaq_latest ==
    /\ pc = "openaq_latest"
    /\ \E out \in JsonOutcomes(LatestBodies) :
          LET url == <<"locations", frame["loc_id"], "latest">>
          IN  /\ trace' = Append(trace, Get("openaq", url))
              /\ IF out.kind = "status"
                 THEN /\ frame' = ("ret" :> OpenAQReturn("error", <<>>,
                                                  "OpenAQ v3 (error)", url)) @@ frame
                      /\ pc' = "air_quality_ground"
                      /\ UNCHANGED resp
                 ELSE IF EscapesStatusHandler(out.kind)
                 THEN /\ resp' = Unhandled(ExcName(out.kind), "openaq_latest_nearby_values")
                      /\ pc' = "responded"
                      /\ UNCHANGED frame
                 ELSE /\ frame' = ("ret" :> OpenAQReturn("ok",
                                       Observations(out.body, frame["sensor_map"]),
                                       "OpenAQ latest by location (v3)", url)) @@ frame
                      /\ pc' = "air_quality_ground"
                      /\ UNCHANGED resp
    /\ Elapse
    /\ UNCHANGED <<hashSalt, airnow_api_key, q, dt, obs, faker_filled, sources,
                   liveVars, synArgs, synOut>>

\* the "results" of an AirNow current-observations body
AirNowBodies == {<<>>, <<[ParameterName |-> "PM2.5", AQI |-> 42]>>}

AirNowReturn(tag, data, srcname) ==
    [payload |-> [tag |-> tag, data |-> data],
     src |-> DataSource(srcname, <<"airnow">>, "Requiere API key.", TRUE)]

(* ----------------------------- /data/air_quality ----------------------- *)
\* sorted(values)[int(round(0.9 * (len - 1)))]
_p90(values) ==
    IF values = <<>> THEN None
    ELSE LET arr == SortSeq(values, LAMBDA a, b : a < b)
             k == RoundHalfEven(9 * (Len(arr) - 1), 10)
         IN  Some(arr[k + 1])

\* {"mean": round(mean, 3), "p90": round(_p90(clean) or mean, 3), "last": clean[-1]}
_stats(values) ==
    IF values = <<>> THEN None
    ELSE LET p == _p90(values).v
             mean == Round(SeqSum(values), Len(values), 3)
         IN  Some([mean |-> mean, p90 |-> IF p # 0 THEN p ELSE mean,
                   last |-> values[Len(values)]])

\* it.get("name").lower()
Lower(name) == CASE name = "PM2.5" -> "pm2.5"
                 [] name = "NO2" -> "no2"
                 [] name = "O3" -> "o3"
                 [] OTHER -> "other"

\* the values of the observations the raw branch files under `key`
RECURSIVE ValsFor(_, _)
ValsFor(observations, key) ==
    IF observations = <<>> THEN <<>>
    ELSE (IF Lower(Head(observations).name) = key
          THEN <<Head(observations).value>> ELSE <<>>)
         \o ValsFor(Tail(observations), key)

openaq_stats(observations) ==
    [pm25 |-> _stats(ValsFor(observations, "pm25")),
     no2 |-> _stats(ValsFor(observations, "no2")),
     o3 |-> _stats(ValsFor(observations, "o3"))]

\* insert or update: the first record named var_name, else append
_ensure_filled(obs_list, var_name, unit, value) ==
    IF \E i \in 1..Len(obs_list) : obs_list[i].name = var_name
    THEN LET i == CHOOSE i \in 1..Len(obs_list) :
                      /\ obs_list[i].name = var_name
                      /\ \A j \in 1..(i - 1) : obs_list[j].name # var_name
         IN  [obs_list EXCEPT ![i] = Observation(var_name, value, unit)]
    ELSE Append(obs_list, Observation(var_name, value, unit))

Names(obs_list) == {obs_list[i].name : i \in 1..Len(obs_list)}

\* one "if X not in names_present:" block of the predict branch
FillOne(st, present, d, var, unit, lo, hi, decimals) ==
    IF var \in present THEN st
    ELSE [obs |-> _ensure_filled(st.obs, var, unit,
                                 _fake_uniform(q.lat, q.lon, d, var, lo, hi, decimals)),
          ff |-> Append(st.ff, var),
          tr |-> Append(st.tr, Draw(var))]

\* the three blocks: PM2.5, NO2, O3
FillMissing(obs0, d, tr) ==
    LET present == Names(obs0)
        s0 == [obs |-> obs0, ff |-> <<>>, tr |-> tr]
        s1 == FillOne(s0, present, d, "PM2.5", "ug/m3", 5000, 120000, 1)
        s2 == FillOne(s1, present, d, "NO2", "ppb", 5000, 100000, 0)
    IN  FillOne(s2, present, d, "O3", "ppb", 10000, 120000, 0)

\* the predict branch from "dt_iso = dt.isoformat()" to the returned body
PredictAirQuality(obs0, srcs, d) ==
    LET st == FillMissing(obs0, d, trace)
    IN  /\ obs' = st.obs
        /\ faker_filled' = st.ff
        /\ trace' = st.tr
        /\ liveVars' = Names(obs0)
        /\ sources' = srcs
        /\ resp' = SynthesizedBundle(d, AqHorizon, st.obs, st.ff, srcs)
        /\ pc' = "responded"

\* the flag ignored: the ground adapters always run
RawGroundAlways(r) == TRUE

\* "if q.include_ground:" of the raw branch
RawGround(r) == r.include_ground

\* "if q.include_ground:" of the predict branch
PredictGround(r) == r.include_ground

air_quality_data ==
    /\ pc = "handler"
    /\ q.endpoint = "air_quality"
    /\ IF ParseDateRaises(q.when)
       THEN /\ resp' = Unhandled("ValueError", "parse_date")
            /\ pc' = "responded"
            /\ UNCHANGED <<dt, frame, sources, obs, faker_filled, liveVars, trace>>
       ELSE /\ dt' = parse_date(q.when, now)
            /\ IF q.output_mode = "predict"
               THEN IF PredictGround(q)
                    THEN /\ pc' = "openaq_locs"
                         /\ UNCHANGED <<frame, sources, obs, faker_filled, liveVars,
                                        trace, resp>>
                    ELSE /\ PredictAirQuality(<<>>, <<>>, dt')
                         /\ UNCHANGED frame
               ELSE /\ sources' = IF q.include_sat
                                  THEN <<snapshot_geotiff(q.lat, q.lon, q.when,
                                                          "MODIS_Terra_Aerosol", now)>>
                                  ELSE <<>>
                    /\ IF RawGround(q)
                       THEN /\ pc' = "openaq_locs"
                            /\ UNCHANGED resp
                       ELSE /\ resp' = DataBundle(dt', sources', EmptyFrame)
                            /\ pc' = "responded"
                    /\ UNCHANGED <<frame, obs, faker_filled, liveVars, trace>>
    /\ UNCHANGED <<hashSalt, airnow_api_key, now, q, synArgs, synOut>>

\* after "await openaq_latest_nearby_values(...)": the rest of the predict
\* branch, or the raw branch up to the AirNow GET
air_quality_ground ==
    /\ pc = "air_quality_ground"
    /\ LET ret == frame["ret"]
           observations == ret.payload.observations
       IN  IF q.output_mode = "predict"
           THEN /\ PredictAirQuality(observations, <<ret.src>>, dt)
                /\ UNCHANGED frame
           ELSE LET art == ("openaq_stats" :> openaq_stats(observations))
                IN  /\ IF airnow_api_key
                       THEN /\ pc' = "airnow"
                            /\ frame' = ("artifacts" :> art) @@ frame
                            /\ sources' = Append(sources, ret.src)
                            /\ UNCHANGED resp
                       ELSE LET an == AirNowReturn("warning", <<>>, "AirNow observations")
                            IN  /\ sources' = sources \o <<ret.src, an.src>>
                                /\ resp' = DataBundle(dt, sources',
                                               ("airnow_sample" :> an.payload) @@ art)
                                /\ pc' = "responded"
                                /\ UNCHANGED frame
                    /\ UNCHANGED <<obs, faker_filled, liveVars, trace>>
    /\ UNCHANGED <<hashSalt, airnow_api_key, now, q, dt, synArgs, synOut>>

\* airnow_nearby with a key: one GET, then the raw branch to the returned bundle
airnow_nearby ==
    /\ pc = "airnow"
    /\ \E out \in JsonOutcomes(AirNowBodies) :
          /\ trace' = Append(trace, Get("airnow", <<q.lat, q.lon>>))
          /\ IF EscapesStatusHandler(out.kind)
             THEN /\ resp' = Unhandled(ExcName(out.kind), "airnow_nearby")
                  /\ UNCHANGED sources
             ELSE LET an == IF out.kind = "status"
                            THEN AirNowReturn("error", <<>>, "AirNow (error)")
                            ELSE AirNowReturn("ok", out.body, "AirNow observations")
                  IN  /\ sources' = Append(sources, an.src)
                      /\ resp' = DataBundle(dt, sources',
                                     ("airnow_sample" :> an.payload) @@ frame["artifacts"])
    /\ pc' = "responded"
    /\ Elapse
    /\ UNCHANGED <<hashSalt, airnow_api_key, q, dt, frame, obs, faker_filled,
                   liveVars, synArgs, synOut>>

Next ==
    \/ Arrive
    \/ Finish
    \/ _fetch_m2_scalar
    \/ temperature_data
    \/ temperature_t2m
    \/ temperature_rh2m
    \/ fetch_imerg_rate_mm_per_hr
    \/ precipitation_data
    \/ precipitation_imerg
    \/ precipitation_rh2m
    \/ precipitation_ts
    \/ wind_data
    \/ fetch_wind10m_u
    \/ fetch_wind10m_v
    \/ openaq_locs
    \/ openaq_detail
    \/ openaq_latest
    \/ airnow_nearby
    \/ air_quality_data
    \/ air_quality_ground

Spec == Init /\ [][Next]_vars


(* --------------- the generator on its own, across restarts ------------- *)
\* the (variable, low, high, decimals) the handlers call _fake_uniform with
SynthRanges ==
    {<<"PM2.5", 5000, 120000, 1>>, <<"NO2", 5000, 100000, 0>>,
     <<"O3", 10000, 120000, 0>>, <<"imerg_rate_u1", 0, 1000, 3>>,
     <<"imerg_rate_u2", 0, 1000, 3>>, <<"humidity", 35000, 95000, 0>>,
     <<"humidity", 20000, 95000, 0>>, <<"skin_temp", 5000, 35000, 1>>,
     <<"temperature", -5000, 38000, 1>>, <<"tmax_boost", 500, 6500, 1>>,
     <<"tmin_boost", 500, 7000, 1>>, <<"cloud_cover", 5000, 95000, 0>>,
     <<"wind_speed", 2000, 70000, 1>>, <<"gust_factor", 1300, 1800, 2>>,
     <<"wind_dir", 0, 360000, 0>>, <<"pressure", 800000, 1020000, 0>>}

SynthInputs ==
    {[lat |-> lat, lon |-> lon, dt_iso |-> d, var |-> r[1], lo |-> r[2],
      hi |-> r[3], decimals |-> r[4]] :
        lat \in {la \in LatInputs : LocationValid(la, 0)},
        lon \in {lo \in LonInputs : LocationValid(0, lo)},
        d \in 0..MaxClock, r \in SynthRanges}

InitSynth ==
    /\ hashSalt \in 0..MaxSalt
    /\ airnow_api_key = FALSE
    /\ now = 0
    /\ pc = "idle"
    /\ q = NoRequest
    /\ dt = 0
    /\ frame = EmptyFrame
    /\ obs = <<>>
    /\ faker_filled = <<>>
    /\ sources = <<>>
    /\ liveVars = {}
    /\ trace = <<>>
    /\ resp = NoResp
    /\ synArgs \in SynthInputs
    /\ synOut = <<>>

\* one more invocation of _fake_uniform on the fixed arguments
Invoke ==
    /\ Len(synOut) < MaxCalls
    /\ synOut' = Append(synOut, _fake_uniform(synArgs.lat, synArgs.lon, synArgs.dt_iso,
                                              synArgs.var, synArgs.lo, synArgs.hi,
                                              synArgs.decimals))
    /\ UNCHANGED <<hashSalt, airnow_api_key, now, synArgs>>
    /\ UNCHANGED reqVars

\* the process is restarted: the interpreter draws a new string-hash secret
\* (or keeps the fixed one when PYTHONHASHSEED pins it)
Restart ==
    /\ hashSalt' \in 0..MaxSalt
    /\ UNCHANGED <<airnow_api_key, now, synArgs, synOut>>
    /\ UNCHANGED reqVars

NextSynth ==
    \/ Invoke
    \/ Restart

SpecSynth == InitSynth /\ [][NextSynth]_vars

(* ------------------- the statistics helper on its own ------------------ *)
\* longest list of observations drawn
MaxObs == 4

\* observation values drawn: negative, zero and positive
StatValues == {-3000, 0, 4000}

RECURSIVE SeqsUpTo(_, _)
SeqsUpTo(S, n) ==
    IF n = 0 THEN {<<>>}
    ELSE LET shorter == SeqsUpTo(S, n - 1)
         IN  shorter \cup {Append(s, x) : s \in shorter, x \in S}

\* no request in flight, no key configured
Quiescent ==
    /\ hashSalt = 0
    /\ airnow_api_key = FALSE
    /\ now = 0
    /\ pc = "idle"
    /\ q = NoRequest
    /\ dt = 0
    /\ frame = EmptyFrame
    /\ obs = <<>>
    /\ faker_filled = <<>>
    /\ sources = <<>>
    /\ liveVars = {}
    /\ trace = <<>>
    /\ resp = NoResp

InitStats ==
    /\ Quiescent
    /\ synArgs \in SeqsUpTo(StatValues, MaxObs) \ {<<>>}
    /\ synOut = <<>>

\* _stats(values) on the drawn list
Summarize ==
    /\ synOut = <<>>
    /\ synOut' = <<_stats(synArgs)>>
    /\ UNCHANGED <<hashSalt, airnow_api_key, now, synArgs>>
    /\ UNCHANGED reqVars

NextStats ==
    \/ Summarize

SpecStats == InitStats /\ [][NextStats]_vars

(* ------------- the generator over every value random() returns --------- *)
InitUniform ==
    /\ Quiescent
    /\ synArgs \in {[var |-> r[1], lo |-> r[2], hi |-> r[3], decimals |-> r[4]] :
                        r \in SynthRanges}
    /\ synOut = <<>>

\* val = rnd.uniform(lo, hi); return round(val, decimals)
DrawUniform ==
    /\ synOut = <<>>
    /\ \E k \in 0..(RandRes - 1) :
           synOut' = <<[kind |-> "uniform",
                        v |-> RoundedUniform(k, synArgs.lo, synArgs.hi, synArgs.decimals)]>>
    /\ UNCHANGED <<hashSalt, airnow_api_key, now, synArgs>>
    /\ UNCHANGED reqVars

\* u1, u2 = _fake_uniform(.., 0, 1, 3) twice; fake_rain = round((u1 * u2) * 12.0, 2)
DrawRain ==
    /\ synArgs.var = "imerg_rate_u1"
    /\ Len(synOut) = 1
    /\ \E k \in 0..(RandRes - 1) :
           synOut' = Append(synOut,
                            [kind |-> "rain",
                             v |-> fake_rain(synOut[1].v, RoundedUniform(k, 0, 1000, 3))])
    /\ UNCHANGED <<hashSalt, airnow_api_key, now, synArgs>>
    /\ UNCHANGED reqVars

NextUniform ==
    \/ DrawUniform
    \/ DrawRain

SpecUniform == InitUniform /\ [][NextUniform]_vars

(* -------------------------------- claims ------------------------------- *)
RO == resp.body.recent_observations

FF == resp.body.faker_filled

ValidRequest == LocationValid(q.lat, q.lon) /\ ~ParseDateRaises(q.when)

\* C1 (as claimed): in a predict response every variable of recent_observations
\* whose value did not come from a live adapter is listed exactly once in
\* faker_filled, and every variable with a live value is never listed.
C1_ProvenanceComplete ==
    resp.kind = "SynthesizedBundle" =>
        \A i \in 1..Len(RO) :
            IF RO[i].name \in liveVars THEN Count(FF, RO[i].name) = 0
            ELSE Count(FF, RO[i].name) = 1

\* C2 (as claimed): every /data/wind predict response holds wind_dir and
\* pressure and lists both in faker_filled; when the reanalysis adapter gave
\* no speed, wind_speed and wind_gust are present and listed too.
C2_WindProvenance ==
    (resp.kind = "SynthesizedBundle" /\ q.endpoint = "wind") =>
        /\ {"wind_dir", "pressure"} \subseteq Names(RO)
        /\ {"wind_dir", "pressure"} \subseteq Range(FF)
        /\ "wind_speed" \notin liveVars =>
               /\ {"wind_speed", "wind_gust"} \subseteq Names(RO)
               /\ {"wind_speed", "wind_gust"} \subseteq Range(FF)

Adapters == {"openaq_latest_nearby_values", "airnow_nearby",
             "fetch_imerg_rate_mm_per_hr", "_fetch_m2_scalar"}

\* C3 (as claimed): no exception of the HTTP fetch layer leaves an adapter;
\* every upstream failure comes back as an absent result with a descriptor.
C3_NoExceptionLeavesAdapter ==
    resp.kind = "error" => resp.raised_in \notin Adapters

\* C4 (as claimed): every valid raw request, on each endpoint, is answered with
\* a DescriptorBundle whose sources are source descriptors, never an error.
C4_RawReturnsDescriptorBundle ==
    (pc = "responded" /\ q.output_mode = "raw" /\ ValidRequest) =>
        /\ resp.kind = "DescriptorBundle"
        /\ SourcesValid(resp.body.sources)

C6_SameValueAcrossRestarts ==
    \A i, j \in 1..Len(synOut) : synOut[i] = synOut[j]

Pollutants == {"PM2.5", "NO2", "O3"}

\* C7 (as claimed): in predict mode with the ground adapters enabled, a
\* synthetic value for PM2.5, NO2 or O3 is drawn only after OpenAQ and then
\* AirNow have been queried.
C7_AirNowBeforeSynthetic ==
    (q.endpoint = "air_quality" /\ q.output_mode = "predict" /\ q.include_ground) =>
        \A i \in 1..Len(trace) :
            (trace[i].op = "synth" /\ trace[i].url[1] \in Pollutants) =>
                /\ \E j \in 1..(i - 1) : trace[j].op = "GET" /\ trace[j].adapter = "openaq"
                /\ \E j \in 1..(i - 1) : trace[j].op = "GET" /\ trace[j].adapter = "airnow"

\* C8 (as claimed): recent_observations of a predict response holds at most one
\* record per variable name.
C8_UniqueNames ==
    resp.kind = "SynthesizedBundle" =>
        \A i, j \in 1..Len(RO) : RO[i].name = RO[j].name => i = j

\* C9 (as claimed): a request with latitude or longitude out of range, or with
\* an unparsable `when`, is answered with a 4xx status and no adapter GET.
C9_MalformedRejected4xx ==
    (pc = "responded" /\ ~ValidRequest) =>
        /\ resp.status >= 400 /\ resp.status <= 499
        /\ Gets(trace) = {}

DomainVars(endpoint) ==
    CASE endpoint = "air_quality" -> {"PM2.5", "NO2", "O3"}
      [] endpoint = "precipitation" -> {"imerg_rate", "humidity", "skin_temp"}
      [] endpoint = "temperature" -> {"temperature", "humidity", "t_max_24h",
                                      "t_min_24h", "cloud_cover"}
      [] OTHER -> {"wind_speed", "wind_gust", "wind_dir", "pressure"}

\* C10 (as claimed): every valid predict request is answered with a
\* SynthesizedBundle holding a value for every variable of its domain, whatever
\* the upstream adapters came to.
C10_PredictAlwaysComplete ==
    (pc = "responded" /\ q.output_mode = "predict" /\ ValidRequest) =>
        /\ resp.kind = "SynthesizedBundle"
        /\ DomainVars(q.endpoint) \subseteq Names(RO)
        /\ \A i \in 1..Len(RO) : RO[i].value \in Int


\* the element at 0-based rank round(0.9 * (n - 1)) of the sorted list
NearestRank(values) ==
    SortSeq(values, LAMBDA a, b : a < b)[RoundHalfEven(9 * (Len(values) - 1), 10) + 1]

\* C11 (as claimed): for every non-empty list of observations the p90 of the
\* statistics object is the nearest-rank element of the sorted list, whatever
\* its value, zero and negative values included.
C11_P90IsNearestRank ==
    \A i \in 1..Len(synOut) :
        synOut[i].some /\ synOut[i].v.p90 = NearestRank(synArgs)


\* C12 (as claimed): every value _fake_uniform returns lies within the bounds
\* it was called with, for each range the handlers use, and the synthetic
\* precipitation rate lies in [0, 12].
C12_SyntheticWithinBounds ==
    \A i \in 1..Len(synOut) :
        /\ synOut[i].kind = "uniform" =>
               synArgs.lo <= synOut[i].v /\ synOut[i].v <= synArgs.hi
        /\ synOut[i].kind = "rain" => 0 <= synOut[i].v /\ synOut[i].v <= 12000

\* both factors of the rate rounded up to 1.0, giving the rate 12.0
C12_Witness ==
    /\ Len(synOut) = 2
    /\ synOut[1] = [kind |-> "uniform", v |-> synArgs.hi]
    /\ synOut[2] = [kind |-> "rain", v |-> 12000]

\* C13 (as claimed): the wind direction drawn in /data/wind predict mode lies
\* in [0, 360); 360 is never returned.
C13_WindDirBelow360 ==
    synArgs.var = "wind_dir" =>
        \A i \in 1..Len(synOut) : 0 <= synOut[i].v /\ synOut[i].v < 360000


\* the upstream fetch a GET belongs to: the adapter and its variable or step
FetchKey(e) ==
    CASE e.adapter = "merra2" -> <<"merra2", e.url[1]>>
      [] e.adapter = "imerg" -> <<"imerg", e.url[1]>>
      [] e.adapter = "openaq" -> <<"openaq", CASE Len(e.url) = 4 -> "locations"
                                               [] Len(e.url) = 2 -> "detail"
                                               [] OTHER -> "latest">>
      [] OTHER -> <<"airnow", "observation">>

\* C14 (as claimed): within one request each upstream fetch (one per adapter
\* and variable or step) is attempted at most once; nothing is retried, also
\* after a failed or absent result.
C14_NothingRetried ==
    \A i, j \in Gets(trace) : FetchKey(trace[i]) = FetchKey(trace[j]) => i = j

\* a /data/precipitation predict response after all three fetches failed:
\* three GETs, one per variable
C14_Witness ==
    /\ pc = "responded"
    /\ resp.kind = "SynthesizedBundle"
    /\ q.endpoint = "precipitation"
    /\ {"imerg_rate", "humidity", "skin_temp"} \subseteq Range(FF)
    /\ \A i \in 1..Len(resp.body.sources) : resp.body.sources[i].name # "MERRA-2"
    /\ Cardinality(Gets(trace)) = 3


\* the larger of the domain's fixed horizon and the request's forward window
\* (hours_fwd, or days_fwd in hours)
LargerHorizon(r) ==
    CASE r.endpoint = "precipitation" -> Max(r.fwd, PrecipHorizon)
      [] r.endpoint = "wind" -> Max(r.fwd, WindHorizon)
      [] r.endpoint = "temperature" -> Max(r.fwd * 24, TempHorizon)
      [] OTHER -> AqHorizon

\* C15 (as claimed): in predict mode the horizon_hours of the time block is
\* the larger of the domain's fixed horizon and the request's forward window,
\* on every endpoint: max(hours_fwd, 24), max(hours_fwd, 48), and the larger
\* of 72 hours and the days_fwd window.
C15_HorizonIsLarger ==
    resp.kind = "SynthesizedBundle" =>
        resp.body.time.horizon_hours = LargerHorizon(q)


\* the (day, half-hour) the timestamp d selects in the IMERG archive and the
\* (day, hour) it selects in the MERRA-2 archive
Bucket(adapter, d) ==
    IF adapter = "imerg" THEN <<d \div 48, d % 48>> ELSE <<d \div 48, _m2_time_idx(d)>>

\* C16 (as claimed): within one request every adapter fetch selects its time
\* bucket from the timestamp the response reports, also when `when` is
\* omitted and time passes between the awaits.
C16_OneTimestampPerRequest ==
    \A i \in Gets(trace) :
        trace[i].adapter \in {"merra2", "imerg"} =>
            <<trace[i].url[2], trace[i].url[3]>> = Bucket(trace[i].adapter, dt)


\* openaq_latest_nearby_values has returned to the handler
OpenAQReturned == pc = "air_quality_ground" /\ "ret" \in DOMAIN frame

\* the locations lookup answered with no station
NoNearbyStation ==
    OpenAQReturned /\ "loc_id" \notin DOMAIN frame /\ frame["ret"].payload.tag # "error"

\* a station was found and its detail lookup answered with no result
NoStationDetail ==
    OpenAQReturned /\ "sensor_map" \in DOMAIN frame /\ DOMAIN frame["sensor_map"] = {}

\* C17 (as claimed): openaq_latest_nearby_values reports "no nearby station"
\* and "no station detail" as two distinct absent outcomes, each without
\* observations and each with a payload and descriptor of its own, unlike the
\* other's and unlike those of a successful lookup.
C17_DistinctAbsentOutcomes ==
    /\ NoNearbyStation =>
           /\ frame["ret"].payload = [tag |-> "warning", observations |-> <<>>]
           /\ frame["ret"].src.name = "OpenAQ locations"
    /\ NoStationDetail =>
           /\ frame["ret"].payload.observations = <<>>
           /\ frame["ret"].payload.tag \notin {"ok", "warning"}
           /\ frame["ret"].src.name \notin {"OpenAQ latest by location (v3)",
                                             "OpenAQ locations"}


\* the statistics of a pollutant in artifacts.openaq_stats
StatsOf(name) ==
    LET st == resp.body.artifacts["openaq_stats"]
    IN  CASE name = "PM2.5" -> st.pm25
          [] name = "NO2" -> st.no2
          [] OTHER -> st.o3

\* C18 (as claimed): in /data/air_quality raw mode with include_ground,
\* whenever the station adapter returned at least one observation of a
\* pollutant (PM2.5, NO2, O3), artifacts.openaq_stats holds a statistics
\* object for that pollutant.
C18_ReturnedObservationsCounted ==
    (resp.kind = "DescriptorBundle" /\ q.endpoint = "air_quality" /\ q.include_ground) =>
        \A name \in Pollutants :
            (\E i \in 1..Len(frame["ret"].payload.observations) :
                 frame["ret"].payload.observations[i].name = name) =>
                StatsOf(name).some


\* C19 (as claimed): for every valid location the index window requested by
\* fetch_imerg_rate_mm_per_hr is non-empty and inside the 1800 x 3600 grid,
\* 0 <= y0 <= y1 <= 1799 and 0 <= x0 <= x1 <= 3599, also at lat = 90 and
\* lon = 180; _fetch_m2_scalar requests a lat index in 0..360 and a lon index
\* in 0..575.
C19_IndexWindowInsideGrid ==
    \A i \in Gets(trace) :
        LET url == trace[i].url
        IN  /\ trace[i].adapter = "imerg" =>
                   /\ 0 <= url[4] /\ url[4] <= url[5] /\ url[5] <= 1799
                   /\ 0 <= url[6] /\ url[6] <= url[7] /\ url[7] <= 3599
            /\ trace[i].adapter = "merra2" =>
                   /\ url[4] \in 0..360
                   /\ url[5] \in 0..575

=============================================================================
